---- MODULE Spec2Model ----
(***************************************************************************)
(* A model of src/server.js: the RSVP / guestbook form backend.  The file  *)
(* holds two variants of the server.  Variant 1 (lines 1-309) selects the  *)
(* storage behind a mutable reference and falls back from Google Sheets to *)
(* local JSON files when the start-up initialisation fails; variant 2      *)
(* (lines 311-572) holds the storage in a constant and only logs the       *)
(* failure.  Spec is variant 1, SpecV2 is variant 2, and SpecApi drives    *)
(* the storage objects' methods directly (getGuestbook with any limit).    *)
(*                                                                         *)
(* JavaScript values are tagged records; strings are sequences of one-     *)
(* character strings so that trim(), Number() and String() are computed.   *)
(* Time is counted in hours.  A call of the remote API takes effect in one *)
(* step, together with the caller's code up to its next await.  The file   *)
(* system calls are synchronous, so a local save or read is one step.      *)
(***************************************************************************)
EXTENDS Integers, Sequences, FiniteSets

VARIABLES
  variant,              \* 1 or 2: which variant of the server runs
  creds,                \* SHEET_ID, SERVICE_ACCOUNT_EMAIL, PRIVATE_KEY
  budget,               \* the number of requests the clients send in the run
  useGoogleSheets,      \* the flag of line 21 (a constant in variant 2)
  storage,              \* "google" or "local": the object `storage` refers to
  sheetsClientPromise,  \* "null" or "set": the cached client promise
  clientPromise,        \* the promise object itself: none/pending/resolved/rejected
  ensuredSheetTitles,   \* the Set of line 85
  sheet,                \* the remote spreadsheet: title -> [exists, cells]
  dirExists,            \* DATA_DIR exists
  file,                 \* kind -> content of RSVP_FILE / GUESTBOOK_FILE
  initPc,               \* where initializeStorage() is
  procs,                \* the async calls suspended at an await
  nreq,                 \* requests received so far (also drives the clock)
  resp,                 \* the last response sent
  faults,               \* the errors the environment has raised so far
  hist,                 \* history: counters of what has happened
  saved                 \* history: the guestbook entries saveGuestbook has
                        \* saved, oldest first, each with its backend

vars == <<variant, creds, budget, useGoogleSheets, storage, sheetsClientPromise,
          clientPromise, ensuredSheetTitles, sheet, dirExists, file, initPc,
          procs, nreq, resp, faults, hist, saved>>

(***************************************************************************)
(* Bounds of the model.                                                    *)
(***************************************************************************)
MaxReqs == 1
MaxLocalReqs == 2
MaxFaults == 1
MaxLimit == 3
MaxWrites == 3
MaxStartupReqs == 2

(***************************************************************************)
(* JavaScript values and the conversions the handlers apply to them.       *)
(***************************************************************************)
Undef == [t |-> "undefined"]
Null == [t |-> "null"]
NaN == [t |-> "NaN"]
Str(s) == [t |-> "string", v |-> s]
Num(n) == [t |-> "number", v |-> n]

Digits == <<"0", "1", "2", "3", "4", "5", "6", "7", "8", "9">>
IsDigit(c) == \E i \in 1..10 : Digits[i] = c
DigitValue(c) == (CHOOSE i \in 1..10 : Digits[i] = c) - 1
IsSpace(c) == c = " "

\* !x is FALSE exactly for the truthy values
Truthy(x) ==
  CASE x.t = "string" -> x.v # <<>>
    [] x.t = "number" -> x.v # 0
    [] OTHER -> FALSE

\* a destructuring default applies to undefined only
Default(x, d) == IF x.t = "undefined" THEN d ELSE x

RECURSIVE TrimStart(_)
TrimStart(s) ==
  IF s # <<>> /\ IsSpace(Head(s)) THEN TrimStart(Tail(s)) ELSE s

RECURSIVE TrimEnd(_)
TrimEnd(s) ==
  IF s # <<>> /\ IsSpace(s[Len(s)]) THEN TrimEnd(SubSeq(s, 1, Len(s) - 1)) ELSE s

\* String.prototype.trim
Trim(s) == TrimEnd(TrimStart(s))

RECURSIVE NatToString(_)
NatToString(n) ==
  IF n < 10 THEN <<Digits[n + 1]>>
  ELSE NatToString(n \div 10) \o <<Digits[(n % 10) + 1]>>

\* String(x)
JsString(x) ==
  CASE x.t = "string" -> x.v
    [] x.t = "number" -> IF x.v < 0 THEN <<"-">> \o NatToString(-x.v)
                         ELSE NatToString(x.v)
    [] x.t = "null" -> <<"n", "u", "l", "l">>
    [] x.t = "NaN" -> <<"N", "a", "N">>
    [] OTHER -> <<"u", "n", "d", "e", "f", "i", "n", "e", "d">>

RECURSIVE DigitsToNat(_)
DigitsToNat(s) ==
  IF s = <<>> THEN 0
  ELSE 10 * DigitsToNat(SubSeq(s, 1, Len(s) - 1)) + DigitValue(s[Len(s)])

\* Number(x): a string is trimmed; the empty string is 0, a run of digits is
\* its decimal value, anything else is NaN
JsNumber(x) ==
  CASE x.t = "number" -> x
    [] x.t = "null" -> Num(0)
    [] x.t = "string" ->
         LET s == Trim(x.v) IN
         IF \A i \in 1..Len(s) : IsDigit(s[i]) THEN Num(DigitsToNat(s)) ELSE NaN
    [] OTHER -> NaN

\* a || b
Or(a, b) == IF Truthy(a) THEN a ELSE b

Range(s) == {s[i] : i \in 1..Len(s)}

RECURSIVE Reverse(_)
\* Array.prototype.reverse
Reverse(s) == IF s = <<>> THEN <<>> ELSE Reverse(Tail(s)) \o <<Head(s)>>

\* the relative index of Array.prototype.slice: a negative index counts from
\* the end, and -0 is 0
RelIndex(i, len) ==
  IF i < 0 THEN (IF len + i < 0 THEN 0 ELSE len + i)
  ELSE (IF i > len THEN len ELSE i)

\* s.slice(start, end), with 0-based indices
Slice(s, start, end) ==
  LET from == RelIndex(start, Len(s))
      to == RelIndex(end, Len(s))
  IN  IF from < to THEN SubSeq(s, from + 1, to) ELSE <<>>

\* s.slice(start)
SliceFrom(s, start) == Slice(s, start, Len(s))

(***************************************************************************)
(* Lines 54-74: the timestamp and the side label.  A date string is        *)
(* written "@" followed by the hour it denotes; any other string is an     *)
(* invalid date.                                                           *)
(***************************************************************************)
\* new Date(value).getTime(), in hours; NaN for an invalid date
DateParse(value) ==
  CASE value.t = "number" -> value
    [] value.t = "string" ->
         IF /\ Len(value.v) >= 2
            /\ Head(value.v) = "@"
            /\ \A i \in 2..Len(value.v) : IsDigit(value.v[i])
         THEN Num(DigitsToNat(Tail(value.v)))
         ELSE NaN
    [] OTHER -> NaN

\* String(n).padStart(2, '0')
PadStart2(n) == IF n < 10 THEN <<"0">> \o NatToString(n) ELSE NatToString(n)

formatTimestampGMT7(value, now) ==
  LET parsed == IF Truthy(value) THEN DateParse(value) ELSE Num(now)
      baseDate == IF parsed.t = "NaN" THEN now ELSE parsed.v
      local == baseDate + 7
  IN  NatToString(local \div 24) \o <<" ">> \o PadStart2(local % 24)
        \o <<" GMT+7">>

\* new Date().toISOString() (variant 2)
toISOString(now) == NatToString(now \div 24) \o <<"T">> \o PadStart2(now % 24) \o <<"Z">>

Groom == <<"g", "r", "o", "o", "m">>
Bride == <<"b", "r", "i", "d", "e">>

formatSideToVietnamese(side) ==
  CASE side = Groom -> <<"Chu re (Trung Hieu)">>
    [] side = Bride -> <<"Co dau (Thanh Phuong)">>
    [] OTHER -> side

(***************************************************************************)
(* Request bodies and the entries the handlers build from them (lines      *)
(* 240-253, 264-276; variant 2: lines 507-518, 529-539).                   *)
(***************************************************************************)
Empty == Str(<<>>)

RsvpType == <<"R", "S", "V", "P">>
GuestbookType == <<"G", "U", "E", "S", "T", "B", "O", "O", "K">>

\* the check without its trim: a name of spaces passes
RsvpInvalidNoTrim(body) == ~Truthy(body.name)

\* the check of lines 241 and 508
RsvpInvalid(body) == ~Truthy(body.name) \/ Len(Trim(JsString(body.name))) = 0

\* the check without its message half
GuestbookInvalidNameOnly(body) ==
  ~Truthy(body.name) \/ Len(Trim(JsString(body.name))) = 0

\* the check of lines 265 and 530
GuestbookInvalid(body) ==
  \/ ~Truthy(body.name)
  \/ ~Truthy(body.message)
  \/ Len(Trim(JsString(body.name))) = 0
  \/ Len(Trim(JsString(body.message))) = 0

\* Number(guests) || 1, with the default of the destructuring
GuestCount(guests) == Or(JsNumber(Default(guests, Num(1))), Num(1)).v

\* the timestamp of a variant 2 entry is the body's, as sent
timestampV2(body, now) == Default(body.timestamp, Str(toISOString(now))).v

RsvpEntry(v, body, now) ==
  IF v = 1
  THEN [name |-> Trim(JsString(body.name)),
        side |-> Trim(JsString(Default(body.side, Empty))),
        phone |-> Trim(JsString(Default(body.phone, Empty))),
        guests |-> GuestCount(body.guests),
        note |-> Trim(JsString(Default(body.note, Empty))),
        type |-> RsvpType,
        timestamp |-> formatTimestampGMT7(body.timestamp, now)]
  ELSE [name |-> Trim(JsString(body.name)),
        phone |-> Trim(JsString(Default(body.phone, Empty))),
        guests |-> GuestCount(body.guests),
        note |-> Trim(JsString(Default(body.note, Empty))),
        type |-> RsvpType,
        timestamp |-> timestampV2(body, now)]

GuestbookEntry(v, body, now) ==
  IF v = 1
  THEN [name |-> Trim(JsString(body.name)),
        side |-> Trim(JsString(Default(body.side, Empty))),
        contact |-> Trim(JsString(Default(body.contact, Empty))),
        message |-> Trim(JsString(body.message)),
        type |-> GuestbookType,
        timestamp |-> formatTimestampGMT7(body.timestamp, now)]
  ELSE [name |-> Trim(JsString(body.name)),
        contact |-> Trim(JsString(Default(body.contact, Empty))),
        message |-> Trim(JsString(body.message)),
        type |-> GuestbookType,
        timestamp |-> timestampV2(body, now)]

(***************************************************************************)
(* Lines 34-52: the local JSON files.  The text of a file is the sequence  *)
(* of its objects, an object the sequence of its <<key, literal>> pairs in *)
(* insertion order; a string literal is quoted, a number is its digits.    *)
(* The model's strings hold no quote or backslash, so nothing is escaped.  *)
(***************************************************************************)
Missing == [t |-> "missing"]
NotArray == [t |-> "other"]
ArrayText(objs) == [t |-> "array", v |-> objs]

\* the keys of the entries, in the order of the object literals: an RSVP has
\* name, side, phone, guests, note, type, timestamp and a guestbook entry
\* name, side, contact, message, type, timestamp (variant 2: no side)
EntryKeys ==
  <<"name", "side", "phone", "contact", "guests", "message", "note", "type",
    "timestamp">>

\* the keys of an entry, in that order
KeysOf(e) == SelectSeq(EntryKeys, LAMBDA k : k \in DOMAIN e)

JsonLiteral(k, val) ==
  IF k = "guests"
  THEN (IF val < 0 THEN <<"-">> \o NatToString(-val) ELSE NatToString(val))
  ELSE <<"\"">> \o val \o <<"\"">>

JsonStringifyObject(e) ==
  LET keys == KeysOf(e)
  IN  [i \in 1..Len(keys) |-> <<keys[i], JsonLiteral(keys[i], e[keys[i]])>>]

\* JSON.stringify(data, null, 2)
JsonStringify(list) == [i \in 1..Len(list) |-> JsonStringifyObject(list[i])]

\* a parse that cuts the opening quote of a string and keeps the closing one
JsonParseLiteralKeepQuote(text) ==
  IF Head(text) = "\"" THEN SubSeq(text, 2, Len(text))
  ELSE IF Head(text) = "-" THEN 0 - DigitsToNat(Tail(text))
  ELSE DigitsToNat(text)

JsonParseLiteral(text) ==
  IF Head(text) = "\"" THEN SubSeq(text, 2, Len(text) - 1)
  ELSE IF Head(text) = "-" THEN 0 - DigitsToNat(Tail(text))
  ELSE DigitsToNat(text)

JsonParseObject(pairs) ==
  [k \in {pairs[i][1] : i \in 1..Len(pairs)} |->
     JsonParseLiteral(pairs[CHOOSE i \in 1..Len(pairs) : pairs[i][1] = k][2])]

\* safeReadJson: readFails is fs.readFileSync throwing
safeReadJson(content, readFails) ==
  IF readFails \/ content.t # "array" THEN <<>>
  ELSE [i \in 1..Len(content.v) |-> JsonParseObject(content.v[i])]

\* the content safeWriteJson writes
safeWriteJson(data) == ArrayText(JsonStringify(data))

\* list.unshift(entry)
Unshift(list, entry) == <<entry>> \o list

\* a save that writes over what another save wrote since the file was read
localSaveOverStale(content, entry, readFails) == safeWriteJson(<<entry>>)

\* lines 190-199: the content a local save writes
localSave(content, entry, readFails) ==
  safeWriteJson(Unshift(safeReadJson(content, readFails), entry))

\* lines 200-203
localGetGuestbook(content, limit, readFails) ==
  Slice(safeReadJson(content, readFails), 0, limit)

(***************************************************************************)
(* Lines 79-82, 149-181: the rows of the remote sheets.  A sheet is        *)
(* [exists, cells]: cells[1] is row 1, where the header goes.              *)
(***************************************************************************)
RSVP_SHEET == "RSVP"
GUESTBOOK_SHEET == "Guestbook"
Titles == {RSVP_SHEET, GUESTBOOK_SHEET}

SHEET_HEADERS(v, title) ==
  IF title = RSVP_SHEET
  THEN (IF v = 1
        THEN <<Str(<<"Thoi gian">>), Str(<<"Ten">>), Str(<<"Ban cua">>),
               Str(<<"So dien thoai">>), Str(<<"so nguoi di cung">>), Str(<<"Ghi chu">>)>>
        ELSE <<Str(<<"Thoi gian">>), Str(<<"Ten">>), Str(<<"So dien thoai">>),
               Str(<<"so nguoi di cung">>), Str(<<"Ghi chu">>)>>)
  ELSE (IF v = 1
        THEN <<Str(<<"Thoi gian">>), Str(<<"Ten">>), Str(<<"Ban cua">>),
               Str(<<"Lien he">>), Str(<<"Loi nhan">>)>>
        ELSE <<Str(<<"Thoi gian">>), Str(<<"Ten">>), Str(<<"Lien he">>),
               Str(<<"Loi nhan">>)>>)

\* the values saveRsvp passes to appendRow
rsvpRow(v, entry) ==
  IF v = 1
  THEN <<Str(entry.timestamp), Str(entry.name), Str(formatSideToVietnamese(entry.side)),
         Str(entry.phone), Num(entry.guests), Str(entry.note)>>
  ELSE <<Str(entry.timestamp), Str(entry.name), Str(entry.phone),
         Num(entry.guests), Str(entry.note)>>

\* the values saveGuestbook passes to appendRow
guestbookRow(v, entry) ==
  IF v = 1
  THEN <<Str(entry.timestamp), Str(entry.name), Str(formatSideToVietnamese(entry.side)),
         Str(entry.contact), Str(entry.message)>>
  ELSE <<Str(entry.timestamp), Str(entry.name), Str(entry.contact), Str(entry.message)>>

\* row[i] || '' over a row of the range A2:D: the API returns the cells of
\* columns A to D as strings and leaves out the empty cells that end a row
Cell(row, i) ==
  IF i <= Len(row) /\ i <= 4 /\ Truthy(Str(JsString(row[i]))) THEN JsString(row[i]) ELSE <<>>

\* lines 157-164, on the rows below row 1
fetchGuestbookRows(cells, limit) ==
  LET rows == IF cells = <<>> THEN <<>> ELSE Tail(cells)
      mapped == [i \in 1..Len(rows) |->
                   [timestamp |-> Cell(rows[i], 1),
                    name |-> Cell(rows[i], 2),
                    contact |-> Cell(rows[i], 3),
                    message |-> Cell(rows[i], 4)]]
  IN  Reverse(SliceFrom(mapped, 0 - limit))

(***************************************************************************)
(* The inputs: the environment's credentials, the state of the disk and of *)
(* the spreadsheet when the process starts, and the request bodies.        *)
(***************************************************************************)
CredValues == {Undef, Empty, Str(<<"k">>)}

\* lines 14-16: process.env.X || ''
Env(x) == Or(x, Empty)

\* a configuration test that is content with any one credential
hasAnyGoogleConfig(c) == Truthy(c.id) \/ Truthy(c.email) \/ Truthy(c.key)

\* line 20
hasGoogleConfig(c) == Truthy(c.id) /\ Truthy(c.email) /\ Truthy(c.key)

EmptySheet == [exists |-> FALSE, cells |-> <<>>]
ReadySheet(v, title) == [exists |-> TRUE, cells |-> <<SHEET_HEADERS(v, title)>>]

\* a new spreadsheet, or one whose two sheets have their header rows
InitialSheets(v) ==
  {[t \in Titles |-> EmptySheet], [t \in Titles |-> ReadySheet(v, t)]}

Kinds == {"rsvp", "guestbook"}

\* no data directory yet, or one whose guestbook file is not a JSON array
InitialDisks ==
  {[dir |-> FALSE, file |-> [k \in Kinds |-> Missing]],
   [dir |-> TRUE, file |-> [k \in Kinds |-> IF k = "rsvp" THEN ArrayText(<<>>)
                                            ELSE NotArray]]}

RsvpBody(name, guests) ==
  [name |-> name, side |-> Undef, phone |-> Undef, guests |-> guests,
   note |-> Undef, timestamp |-> Undef]

RsvpBodies ==
  {RsvpBody(n, Undef) : n \in {Undef, Empty, Str(<<" ">>)}}
    \cup {RsvpBody(Str(<<" ", "a">>), g) :
            g \in {Undef, Num(0), Str(<<"3">>), Str(<<"x">>)}}

GuestbookBody(name, message, side, contact, timestamp) ==
  [name |-> name, side |-> side, contact |-> contact, message |-> message,
   timestamp |-> timestamp]

GuestbookBodies ==
  {GuestbookBody(n, Str(<<"m">>), Undef, Undef, Undef) :
     n \in {Undef, Empty, Str(<<" ">>)}}
    \cup {GuestbookBody(Str(<<"a">>), m, Undef, Undef, Undef) :
            m \in {Undef, Empty, Str(<<" ">>), Str(<<"m", " ">>)}}
    \cup {GuestbookBody(Str(<<" ", "b">>), Str(<<"n">>), Str(Groom),
                        Str(<<"c">>), Str(<<"@", "5">>))}

\* new Date(), in hours: the clock advances with every request
Now(n) == 20 + n

\* a response: its status and items, and for the record the backend that
\* handled the request and whether an I/O or API error was raised in it
NoResp == [kind |-> "none", status |-> 0, items |-> <<>>, backend |-> "none",
           ioError |-> FALSE]

Resp(kind, status, items, backend, ioError) ==
  [kind |-> kind, status |-> status, items |-> items, backend |-> backend,
   ioError |-> ioError]

NoHist == [apiCalled |-> FALSE, switches |-> 0, initAttempts |-> 0, limit |-> -1]

NoEntry == [type |-> <<>>]

Saved(backend, entry) == [backend |-> backend, entry |-> entry]

InitState(v) ==
  /\ variant = v
  /\ creds \in [id : CredValues, email : CredValues, key : CredValues]
  /\ useGoogleSheets = hasGoogleConfig([k \in DOMAIN creds |-> Env(creds[k])])
  /\ storage = IF useGoogleSheets THEN "google" ELSE "local"
  /\ sheetsClientPromise = "null"
  /\ clientPromise = "none"
  /\ ensuredSheetTitles = {}
  /\ sheet \in IF useGoogleSheets THEN InitialSheets(v)
               ELSE {[t \in Titles |-> EmptySheet]}
  /\ \E d \in InitialDisks :
       /\ useGoogleSheets => d.file["guestbook"] # NotArray
       /\ dirExists = d.dir
       /\ file = d.file
  /\ initPc = "start"
  /\ procs = {}
  /\ nreq = 0
  /\ resp = NoResp
  /\ faults = 0
  /\ hist = NoHist
  /\ saved = <<>>

\* the requests a run receives: more when it starts on the local files, where
\* a request is a single step
Requests ==
  IF hasGoogleConfig([k \in DOMAIN creds |-> Env(creds[k])]) THEN MaxReqs
  ELSE MaxLocalReqs

InitOf(v) == InitState(v) /\ budget = Requests

Init == InitOf(1)

config == <<variant, creds, budget>>
disk == <<dirExists, file>>
remote == <<sheet, ensuredSheetTitles>>
client == <<sheetsClientPromise, clientPromise>>
selector == <<useGoogleSheets, storage>>

(***************************************************************************)
(* The environment: a call of the file system or of the remote API may     *)
(* throw.  MayFail(used) is what a call may do when the step has raised    *)
(* `used` errors already; Count is the number of errors among its flags.   *)
(***************************************************************************)
MayFail(used) == IF faults + used < MaxFaults THEN BOOLEAN ELSE {FALSE}

Count(flags) == Cardinality({i \in 1..Len(flags) : flags[i]})

Faults == {"none", "mkdir", "rsvp", "guestbook"}

\* which call of ensureDataFiles throws, if any
MayFault(used) == IF faults + used < MaxFaults THEN Faults ELSE {"none"}

(***************************************************************************)
(* Lines 34-38.  fault names the call that throws, if any.                 *)
(***************************************************************************)
ensureDataFiles(dir, f, fault) ==
  LET mkdirThrows == ~dir /\ fault = "mkdir"
      rsvpThrows == ~mkdirThrows /\ f["rsvp"] = Missing /\ fault = "rsvp"
      guestbookThrows ==
        ~mkdirThrows /\ ~rsvpThrows /\ f["guestbook"] = Missing /\ fault = "guestbook"
  IN  [dir |-> dir \/ ~mkdirThrows,
       file |-> [k \in Kinds |->
                   IF /\ f[k] = Missing
                      /\ ~mkdirThrows
                      /\ ~rsvpThrows
                      /\ (k = "guestbook" => ~guestbookThrows)
                   THEN ArrayText(<<>>) ELSE f[k]],
       threw |-> mkdirThrows \/ rsvpThrows \/ guestbookThrows]

(***************************************************************************)
(* Lines 87-101: the synchronous part of getSheetsClient, when it does not *)
(* throw.  The first call creates the promise and starts the authorisation.*)
(***************************************************************************)
getSheetsClient ==
  /\ sheetsClientPromise' = "set"
  /\ clientPromise' = IF sheetsClientPromise = "null" THEN "pending" ELSE clientPromise

InitProc(title) ==
  [id |-> 0, kind |-> "init", title |-> title, pc |-> "client", entry |-> NoEntry,
   row |-> <<>>]

(***************************************************************************)
(* Lines 209-216 and 234 (variant 2: 490-498): initializeStorage() up to   *)
(* its first await.  The local init runs ensureDataFiles at once; the      *)
(* remote init starts ensureSheetExists for every title (lines 172-174),   *)
(* and each of them runs up to its await of getSheetsClient.               *)
(***************************************************************************)
StartInit ==
  /\ initPc = "start"
  /\ IF storage = "local"
     THEN \E fault \in MayFault(0) :
            LET r == ensureDataFiles(dirExists, file, fault)
            IN  /\ dirExists' = r.dir
                /\ file' = r.file
                /\ initPc' = IF r.threw THEN "failed" ELSE "ready"
                /\ faults' = faults + Count(<<fault # "none">>)
                /\ UNCHANGED <<client, procs, hist>>
     ELSE /\ getSheetsClient
          /\ procs' = {InitProc(t) : t \in Titles}
          /\ initPc' = "running"
          /\ hist' = [hist EXCEPT !.apiCalled = TRUE, !.initAttempts = @ + 1]
          /\ UNCHANGED <<disk, faults>>
  /\ UNCHANGED <<config, selector, remote, nreq, resp, saved>>

\* a catch that starts the initialisation again
catchInitErrorRetry(fault) ==
  /\ initPc' = "start"
  /\ UNCHANGED <<selector, sheetsClientPromise, disk, hist>>

(***************************************************************************)
(* Lines 217-231: the catch of initializeStorage (variant 2, lines         *)
(* 499-501, only logs).  Nothing awaits between the assignments and the    *)
(* local init, which runs ensureDataFiles at once.                         *)
(***************************************************************************)
catchInitError(fault) ==
  IF variant = 1 /\ useGoogleSheets
  THEN LET r == ensureDataFiles(dirExists, file, fault)
       IN  /\ useGoogleSheets' = FALSE
           /\ sheetsClientPromise' = "null"
           /\ storage' = "local"
           /\ dirExists' = r.dir
           /\ file' = r.file
           /\ initPc' = "fellback"
           /\ hist' = [hist EXCEPT !.switches = @ + 1]
  ELSE /\ initPc' = "failed"
       /\ UNCHANGED <<selector, sheetsClientPromise, disk, hist>>

Goto(p, pc) == procs' = (procs \ {p}) \cup {[p EXCEPT !.pc = pc]}

\* an error thrown in p, the step having raised `used` errors: init's
\* Promise.all rejects with the first error of its tasks; a handler answers
\* 500 (lines 257-259, 280-282, 290-292)
Throw(p, used) ==
  /\ procs' = procs \ {p}
  /\ IF p.kind = "init" /\ initPc = "running"
     THEN /\ \E fault \in MayFault(used) :
               /\ catchInitError(fault)
               /\ faults' = faults + used + Count(<<fault # "none">>)
          /\ UNCHANGED resp
     ELSE /\ resp' = IF p.kind = "init" THEN resp
                     ELSE Resp(p.kind, 500, <<>>, "google", TRUE)
          /\ faults' = faults + used
          /\ UNCHANGED <<selector, sheetsClientPromise, disk, initPc, hist>>

\* where a handler's appendRow or fetchGuestbookRows goes on after
\* ensureSheetExists
AfterEnsure(p) == IF p.kind = "get" THEN "read" ELSE "append"

\* line 104, in a handler: ensureSheetExists returns at once, or awaits the
\* client and asks for the spreadsheet
EnsurePc(p) ==
  IF ~useGoogleSheets \/ p.title \in ensuredSheetTitles THEN AfterEnsure(p)
  ELSE "info"

\* ensureSheetExists(p.title) returns
Continue(p) ==
  IF p.kind = "init"
  THEN /\ procs' = procs \ {p}
       /\ initPc' = IF initPc = "running" /\ (\A q \in procs \ {p} : q.kind # "init")
                    THEN "ready" ELSE initPc
  ELSE /\ Goto(p, AfterEnsure(p))
       /\ UNCHANGED initPc

quiet == <<selector, sheetsClientPromise, disk, hist, resp>>

\* the request received last among rs
Latest(rs) == CHOOSE p \in rs : \A q \in rs : q.id <= p.id

(***************************************************************************)
(* auth.authorize() settles (line 98), and with it every await of          *)
(* getSheetsClient() (lines 105, 136, 150): while the promise is pending   *)
(* every call is suspended there.  Resolved, init's tasks ask for the      *)
(* spreadsheet and the handlers enter ensureSheetExists; rejected, init    *)
(* fails and every waiting handler answers 500.                            *)
(***************************************************************************)
AuthSettle ==
  /\ clientPromise = "pending"
  /\ \E fails \in MayFail(0) :
       IF ~fails
       THEN /\ clientPromise' = "resolved"
            /\ procs' = {[p EXCEPT !.pc = IF p.kind = "init" THEN "info"
                                          ELSE EnsurePc(p)] : p \in procs}
            /\ UNCHANGED <<quiet, initPc, faults>>
       ELSE LET waiting == {p \in procs : p.kind # "init"}
            IN  /\ clientPromise' = "rejected"
                /\ procs' = {}
                /\ resp' = IF waiting = {} THEN resp
                           ELSE Resp(Latest(waiting).kind, 500, <<>>, "google", TRUE)
                /\ IF initPc = "running"
                   THEN \E fault \in MayFault(1) :
                          /\ catchInitError(fault)
                          /\ faults' = faults + 1 + Count(<<fault # "none">>)
                   ELSE /\ faults' = faults + 1
                        /\ UNCHANGED <<selector, sheetsClientPromise, disk, initPc, hist>>
  /\ UNCHANGED <<config, remote, nreq, saved>>

\* line 106: sheets.spreadsheets.get
GetInfo(p) ==
  /\ p.pc = "info"
  /\ \E fails \in MayFail(0) :
       IF fails
       THEN Throw(p, 1)
       ELSE /\ Goto(p, IF sheet[p.title].exists THEN "hdrGet" ELSE "add")
            /\ UNCHANGED <<quiet, initPc, faults>>
  /\ UNCHANGED <<config, clientPromise, remote, nreq, saved>>

\* lines 108-115: batchUpdate addSheet; the API refuses a title that exists
AddSheet(p) ==
  /\ p.pc = "add"
  /\ \E fails \in MayFail(0) :
       IF fails \/ sheet[p.title].exists
       THEN Throw(p, Count(<<fails>>)) /\ UNCHANGED sheet
       ELSE /\ sheet' = [sheet EXCEPT ![p.title].exists = TRUE]
            /\ Goto(p, "hdrGet")
            /\ UNCHANGED <<quiet, initPc, faults>>
  /\ UNCHANGED <<config, clientPromise, ensuredSheetTitles, nreq, saved>>

\* lines 117-123: values.get of row 1; its error is caught and reads as no
\* header.  With a header the title is ensured (line 132).
GetHeader(p) ==
  /\ p.pc = "hdrGet"
  /\ \E fails \in MayFail(0) :
       LET hasHeader == ~fails /\ sheet[p.title].exists /\ sheet[p.title].cells # <<>>
       IN  /\ IF hasHeader
              THEN /\ ensuredSheetTitles' = ensuredSheetTitles \cup {p.title}
                   /\ Continue(p)
              ELSE /\ Goto(p, "hdrPut")
                   /\ UNCHANGED <<ensuredSheetTitles, initPc>>
           /\ faults' = faults + Count(<<fails>>)
  /\ UNCHANGED <<config, clientPromise, sheet, nreq, quiet, saved>>

\* lines 124-132: values.update of row 1
PutHeader(p) ==
  /\ p.pc = "hdrPut"
  /\ \E fails \in MayFail(0) :
       IF fails \/ ~sheet[p.title].exists
       THEN Throw(p, Count(<<fails>>)) /\ UNCHANGED remote
       ELSE /\ sheet' = [sheet EXCEPT ![p.title].cells =
                           IF @ = <<>> THEN <<SHEET_HEADERS(variant, p.title)>>
                           ELSE [@ EXCEPT ![1] = SHEET_HEADERS(variant, p.title)]]
            /\ ensuredSheetTitles' = ensuredSheetTitles \cup {p.title}
            /\ Continue(p)
            /\ UNCHANGED <<quiet, faults>>
  /\ UNCHANGED <<config, clientPromise, nreq, saved>>

\* lines 138-146: values.append adds the row below the last one
AppendValues(p) ==
  /\ p.pc = "append"
  /\ \E fails \in MayFail(0) :
       IF fails \/ ~sheet[p.title].exists
       THEN Throw(p, Count(<<fails>>)) /\ UNCHANGED <<sheet, saved>>
       ELSE /\ sheet' = [sheet EXCEPT ![p.title].cells = Append(@, p.row)]
            /\ saved' = IF p.kind = "guestbook"
                        THEN Append(saved, Saved("google", p.entry)) ELSE saved
            /\ procs' = procs \ {p}
            /\ resp' = Resp(p.kind, 200, <<>>, "google", FALSE)
            /\ UNCHANGED <<selector, sheetsClientPromise, disk, hist, initPc, faults>>
  /\ UNCHANGED <<config, clientPromise, ensuredSheetTitles, nreq>>

GuestbookLimit == 10

\* lines 152-164 and 288-289: values.get of A2:D, and the response
ReadValues(p) ==
  /\ p.pc = "read"
  /\ \E fails \in MayFail(0) :
       IF fails \/ ~sheet[p.title].exists
       THEN Throw(p, Count(<<fails>>))
       ELSE /\ procs' = procs \ {p}
            /\ resp' = Resp(p.kind, 200,
                            fetchGuestbookRows(sheet[p.title].cells, GuestbookLimit),
                            "google", FALSE)
            /\ UNCHANGED <<selector, sheetsClientPromise, disk, hist, initPc, faults>>
  /\ UNCHANGED <<config, clientPromise, remote, nreq, saved>>

(***************************************************************************)
(* The request handlers, lines 239-294 (variant 2: 506-557).               *)
(***************************************************************************)
\* a save that writes every record to the guestbook file
saveLocalOneFile(kind, entry) ==
  \E readFails \in MayFail(0) : \E writeFails \in MayFail(Count(<<readFails>>)) :
    LET readThrows == readFails \/ file[kind] = Missing
        writeThrows == writeFails \/ ~dirExists
    IN  /\ file' = IF writeThrows THEN file
                   ELSE [file EXCEPT !["guestbook"] = localSave(@, entry, readThrows)]
        /\ dirExists' = dirExists
        /\ resp' = Resp(kind, IF writeThrows THEN 500 ELSE 200, <<>>, "local",
                        readThrows \/ writeThrows)
        /\ saved' = IF kind = "guestbook" /\ ~writeThrows
                    THEN Append(saved, Saved("local", entry)) ELSE saved
        /\ faults' = faults + Count(<<readFails, writeFails>>)

\* lines 190-199 under the handler's try: the local save and the response
saveLocal(kind, entry) ==
  \E readFails \in MayFail(0) : \E writeFails \in MayFail(Count(<<readFails>>)) :
    LET readThrows == readFails \/ file[kind] = Missing
        writeThrows == writeFails \/ ~dirExists
    IN  /\ file' = IF writeThrows THEN file
                   ELSE [file EXCEPT ![kind] = localSave(@, entry, readThrows)]
        /\ dirExists' = dirExists
        /\ resp' = Resp(kind, IF writeThrows THEN 500 ELSE 200, <<>>, "local",
                        readThrows \/ writeThrows)
        /\ saved' = IF kind = "guestbook" /\ ~writeThrows
                    THEN Append(saved, Saved("local", entry)) ELSE saved
        /\ faults' = faults + Count(<<readFails, writeFails>>)

\* a handler calls into the remote storage: appendRow or fetchGuestbookRows up
\* to its first await that does not end at once
startRemote(id, kind, title, entry, row) ==
  LET p == [id |-> id, kind |-> kind, title |-> title, pc |-> "client",
            entry |-> entry, row |-> row]
      promise == IF sheetsClientPromise = "null" THEN "pending" ELSE clientPromise
  IN  /\ IF ~useGoogleSheets \/ promise = "rejected"
         THEN /\ resp' = Resp(kind, 500, <<>>, "google", TRUE)
              /\ UNCHANGED <<client, procs, hist>>
         ELSE /\ getSheetsClient
              /\ procs' = procs \cup
                   {[p EXCEPT !.pc = IF promise = "resolved" THEN EnsurePc(p)
                                     ELSE "client"]}
              /\ hist' = [hist EXCEPT !.apiCalled = TRUE]
              /\ UNCHANGED resp

\* the requests still to come are those of the budget
ReqBound == budget

\* app.post('/api/rsvp')
PostRsvp(body) ==
  /\ initPc # "start"
  /\ nreq < ReqBound
  /\ nreq' = nreq + 1
  /\ IF RsvpInvalid(body)
     THEN /\ resp' = Resp("rsvp", 400, <<>>, "none", FALSE)
          /\ UNCHANGED <<client, procs, hist, disk, faults, saved>>
     ELSE LET entry == RsvpEntry(variant, body, Now(nreq))
          IN  IF storage = "local"
              THEN /\ saveLocal("rsvp", entry)
                   /\ UNCHANGED <<client, procs, hist>>
              ELSE /\ startRemote(nreq + 1, "rsvp", RSVP_SHEET, entry,
                                  rsvpRow(variant, entry))
                   /\ UNCHANGED <<disk, faults, saved>>
  /\ UNCHANGED <<config, selector, remote, initPc>>

\* app.post('/api/guestbook')
PostGuestbook(body) ==
  /\ initPc # "start"
  /\ nreq < ReqBound
  /\ nreq' = nreq + 1
  /\ IF GuestbookInvalid(body)
     THEN /\ resp' = Resp("guestbook", 400, <<>>, "none", FALSE)
          /\ UNCHANGED <<client, procs, hist, disk, faults, saved>>
     ELSE LET entry == GuestbookEntry(variant, body, Now(nreq))
          IN  IF storage = "local"
              THEN /\ saveLocal("guestbook", entry)
                   /\ UNCHANGED <<client, procs, hist>>
              ELSE /\ startRemote(nreq + 1, "guestbook", GUESTBOOK_SHEET, entry,
                                  guestbookRow(variant, entry))
                   /\ UNCHANGED <<disk, faults, saved>>
  /\ UNCHANGED <<config, selector, remote, initPc>>

\* app.get('/api/guestbook')
GetGuestbook ==
  /\ initPc # "start"
  /\ nreq < ReqBound
  /\ nreq' = nreq + 1
  /\ IF storage = "local"
     THEN /\ \E readFails \in MayFail(0) :
               LET readThrows == readFails \/ file["guestbook"] = Missing
               IN  /\ resp' = Resp("get", 200,
                                   localGetGuestbook(file["guestbook"], GuestbookLimit,
                                                     readThrows),
                                   "local", readThrows)
                   /\ faults' = faults + Count(<<readFails>>)
          /\ UNCHANGED <<client, procs, hist>>
     ELSE /\ startRemote(nreq + 1, "get", GUESTBOOK_SHEET, NoEntry, <<>>)
          /\ UNCHANGED faults
  /\ UNCHANGED <<config, selector, remote, initPc, disk, saved>>

Next ==
  \/ StartInit
  \/ AuthSettle
  \/ \E p \in procs : GetInfo(p)
  \/ \E p \in procs : AddSheet(p)
  \/ \E p \in procs : GetHeader(p)
  \/ \E p \in procs : PutHeader(p)
  \/ \E p \in procs : AppendValues(p)
  \/ \E p \in procs : ReadValues(p)
  \/ \E body \in RsvpBodies : PostRsvp(body)
  \/ \E body \in GuestbookBodies : PostGuestbook(body)
  \/ GetGuestbook

Spec == Init /\ [][Next]_vars

TypeOK ==
  /\ storage \in {"google", "local"}
  /\ useGoogleSheets \in BOOLEAN
  /\ initPc \in {"start", "running", "ready", "fellback", "failed"}
  /\ nreq \in 0..ReqBound
  /\ faults \in 0..MaxFaults

(***************************************************************************)
(* The second variant of the server (lines 311-572), under the same        *)
(* environment.                                                            *)
(***************************************************************************)
SpecV2 == InitOf(2) /\ [][Next]_vars

(***************************************************************************)
(* The storage interface called directly (lines 170-205; variant 2: lines  *)
(* 457-488): after a successful init on empty stores, saveGuestbook and    *)
(* getGuestbook(limit) run one after the other, without errors.            *)
(***************************************************************************)
InitApi ==
  /\ variant \in {1, 2}
  /\ budget = 0
  /\ creds \in {[id |-> c, email |-> c, key |-> c] : c \in {Undef, Str(<<"k">>)}}
  /\ useGoogleSheets = hasGoogleConfig([k \in DOMAIN creds |-> Env(creds[k])])
  /\ storage = IF useGoogleSheets THEN "google" ELSE "local"
  /\ sheetsClientPromise = IF useGoogleSheets THEN "set" ELSE "null"
  /\ clientPromise = IF useGoogleSheets THEN "resolved" ELSE "none"
  /\ ensuredSheetTitles = IF useGoogleSheets THEN Titles ELSE {}
  /\ sheet = [t \in Titles |-> IF useGoogleSheets THEN ReadySheet(variant, t)
                               ELSE EmptySheet]
  /\ dirExists = TRUE
  /\ file = [k \in Kinds |-> ArrayText(<<>>)]
  /\ initPc = "ready"
  /\ procs = {}
  /\ nreq = 0
  /\ resp = NoResp
  /\ faults = 0
  /\ hist = NoHist
  /\ saved = <<>>

\* storage.saveGuestbook(entry), with an entry a handler builds
ApiSaveGuestbook(body) ==
  /\ Len(saved) < MaxWrites
  /\ ~GuestbookInvalid(body)
  /\ LET entry == GuestbookEntry(variant, body, Now(Len(saved)))
     IN  /\ IF storage = "local"
            THEN /\ file' = [file EXCEPT !["guestbook"] = localSave(@, entry, FALSE)]
                 /\ UNCHANGED sheet
            ELSE /\ sheet' = [sheet EXCEPT ![GUESTBOOK_SHEET].cells =
                                Append(@, guestbookRow(variant, entry))]
                 /\ UNCHANGED file
         /\ saved' = Append(saved, Saved(storage, entry))
  /\ UNCHANGED <<config, selector, client, ensuredSheetTitles, dirExists, initPc,
                 procs, nreq, resp, faults, hist>>

\* storage.getGuestbook(limit); the result is kept as the response's items
ApiGetGuestbook(limit) ==
  /\ resp' = Resp("get", 200,
                  IF storage = "local"
                  THEN localGetGuestbook(file["guestbook"], limit, FALSE)
                  ELSE fetchGuestbookRows(sheet[GUESTBOOK_SHEET].cells, limit),
                  storage, FALSE)
  /\ hist' = [hist EXCEPT !.limit = limit]
  /\ UNCHANGED <<config, selector, client, remote, disk, initPc, procs, nreq,
                 faults, saved>>

NextApi ==
  \/ \E body \in GuestbookBodies : ApiSaveGuestbook(body)
  \/ \E limit \in 0..MaxLimit : ApiGetGuestbook(limit)

SpecApi == InitApi /\ [][NextApi]_vars

(***************************************************************************)
(* The properties.                                                         *)
(***************************************************************************)
\* absent, empty or whitespace-only
Blank(x) ==
  \/ x = Undef
  \/ x.t = "string" /\ \A i \in 1..Len(x.v) : x.v[i] = " "

\* the records of a file
Records(content) == safeReadJson(content, FALSE)

IsSuffix(old, new) ==
  /\ Len(old) <= Len(new)
  /\ SubSeq(new, Len(new) - Len(old) + 1, Len(new)) = old

Min(a, b) == IF a < b THEN a ELSE b

Last(s) == s[Len(s)]

\* nothing is written and no write is under way that was not before
StoresUnchanged ==
  /\ file' = file
  /\ dirExists' = dirExists
  /\ sheet' = sheet
  /\ procs' = procs
  /\ saved' = saved

\* C1: an RSVP submission whose name is absent, empty or whitespace-only is
\* answered 400, and the RSVP and guestbook stores of both backends are after
\* the request what they were before it, whichever backend is active.
C1_RsvpWithoutNameRejected ==
  [][\A body \in RsvpBodies :
       (Blank(body.name) /\ PostRsvp(body)) =>
         (resp'.kind = "rsvp" /\ resp'.status = 400 /\ StoresUnchanged)]_vars

\* an RSVP without a name has been refused while the RSVP file holds a record
C1_Witness ==
  /\ resp.kind = "rsvp"
  /\ resp.status = 400
  /\ Records(file["rsvp"]) # <<>>

\* C2: a guestbook submission whose name or message is absent, empty or
\* whitespace-only is answered 400, and both stores of both backends are
\* unchanged by the request.
C2_GuestbookWithoutNameOrMessageRejected ==
  [][\A body \in GuestbookBodies :
       ((Blank(body.name) \/ Blank(body.message)) /\ PostGuestbook(body)) =>
         (resp'.kind = "guestbook" /\ resp'.status = 400 /\ StoresUnchanged)]_vars

\* a guestbook submission has been refused while the remote backend is active
C2_Witness ==
  /\ resp.kind = "guestbook"
  /\ resp.status = 400
  /\ storage = "google"
  /\ initPc = "ready"

\* the guest count the claim gives a valid submission
ClaimedGuests(guests) ==
  IF guests = Undef \/ JsNumber(guests).t = "NaN" THEN 1 ELSE JsNumber(guests).v

\* C3: a valid RSVP submission adds a record to the active backend's RSVP
\* store whose guest count is 1 when guests is omitted or non-numeric and the
\* numeric value of guests otherwise (here: on the local backend, when the
\* request is answered ok).
C3_GuestCountIsNumericValue ==
  [][\A body \in RsvpBodies :
       (~Blank(body.name) /\ PostRsvp(body) /\ storage = "local"
          /\ resp'.status = 200) =>
         /\ Records(file'["rsvp"]) # <<>>
         /\ Records(file'["rsvp"])[1].guests = ClaimedGuests(body.guests)]_vars

\* C4: after N guestbook entries have been written to an empty store,
\* getGuestbook(K) returns min(N, K) items, the most recently written ones,
\* the last written first, on either backend and for every K >= 0.
C4_LimitedReverseChronological ==
  [][\A limit \in 0..MaxLimit :
       ApiGetGuestbook(limit) =>
         LET n == Len(saved)
             items == resp'.items
         IN  /\ Len(items) = Min(n, limit)
             /\ \A i \in 1..Min(Len(items), n) :
                  /\ items[i].timestamp = saved[n + 1 - i].entry.timestamp
                  /\ items[i].name = saved[n + 1 - i].entry.name]_vars

\* all three credentials are present and non-empty
AllPresent(c) == \A k \in DOMAIN c : c[k] # Undef /\ c[k] # Empty

\* C5: with remote credentials configured, once the remote initialisation has
\* failed the local-file backend is the active backend.
C5_LocalAfterFailedRemoteInit ==
  (AllPresent(creds) /\ initPc \in {"failed", "fellback"}) => storage = "local"

\* C6: once the active backend is the local-file backend it is never the
\* remote backend again, the active backend changes at most once, and the
\* remote initialisation is attempted at most once.
C6_FallbackOnceOneWay ==
  /\ [](hist.switches <= 1 /\ hist.initAttempts <= 1)
  /\ [][/\ storage = "local" => storage' = "local"
        /\ storage' # storage => hist'.switches = hist.switches + 1]_vars

\* the remote initialisation failed, the backend changed to the local files
\* and a request has been handled since
C6_Witness ==
  /\ AllPresent(creds)
  /\ storage = "local"
  /\ hist.switches = 1
  /\ hist.initAttempts = 1
  /\ nreq > 0

\* C7: at the start the remote backend is the active one exactly when the
\* three credentials are all present and non-empty; with one of them missing
\* or empty the local-file backend is active and no remote-API call is made
\* by the startup or by any request.
C7_RemoteIffAllCredentials ==
  /\ initPc = "start" => (storage = "google" <=> AllPresent(creds))
  /\ ~AllPresent(creds) =>
       /\ storage = "local"
       /\ ~hist.apiCalled
       /\ procs = {}
       /\ clientPromise = "none"
       /\ \A t \in Titles : sheet[t] = EmptySheet

\* with an empty credential every request of the run was handled locally
C7_Witness ==
  /\ creds.id = Empty
  /\ creds.email # Undef
  /\ creds.key # Undef
  /\ nreq = ReqBound
  /\ resp.status = 200
  /\ resp.backend = "local"

\* C8: a request in which an I/O or remote-API error was raised is answered
\* with a 500.
C8_ErrorsAnswered500 == resp.ioError => resp.status = 500

\* C9: the records a local file held before a step are all still in it after
\* the step, unchanged and in the same order, below at most one new record.
C9_LocalFilesAppendOnly ==
  [][\A k \in Kinds :
       /\ IsSuffix(Records(file[k]), Records(file'[k]))
       /\ Len(Records(file'[k])) <= Len(Records(file[k])) + 1]_vars

\* the guestbook entries saved on the local backend, oldest first
LocalSaved == SelectSeq(saved, LAMBDA s : s.backend = "local")

\* C10: on the local backend a getGuestbook that follows a saveGuestbook
\* returns, first, an item whose fields are exactly those of the entry saved:
\* none dropped, added or altered (the read of the file succeeding).
C10_LocalRoundTrip ==
  [][(GetGuestbook /\ storage = "local" /\ ~resp'.ioError /\ LocalSaved # <<>>) =>
       /\ resp'.items # <<>>
       /\ resp'.items[1] = Last(LocalSaved).entry]_vars

\* an entry sent with a side, a contact and a timestamp has been read back
C10_Witness ==
  /\ resp.kind = "get"
  /\ resp.backend = "local"
  /\ ~resp.ioError
  /\ resp.items # <<>>
  /\ LocalSaved # <<>>
  /\ resp.items[1] = Last(LocalSaved).entry
  /\ resp.items[1].side = Groom
  /\ resp.items[1].contact = <<"c">>

\* C11: the guestbook read is the same on both backends: for every limit
\* K >= 1 the items getGuestbook(K) returns are, most recent first, the
\* entries that were saved, and in each item the timestamp, name, contact and
\* message are those of the entry it came from.
C11_ReadSameOnBothBackends ==
  [][\A limit \in 1..MaxLimit :
       ApiGetGuestbook(limit) =>
         LET n == Len(saved)
             items == resp'.items
         IN  /\ Len(items) = Min(n, limit)
             /\ \A i \in 1..Min(Len(items), n) :
                  LET entry == saved[n + 1 - i].entry
                  IN  /\ items[i].timestamp = entry.timestamp
                      /\ items[i].name = entry.name
                      /\ items[i].contact = entry.contact
                      /\ items[i].message = entry.message]_vars

\* the entries of a sequence of saved guestbook entries, the newest first
NewestFirst(ss) == Reverse([i \in 1..Len(ss) |-> ss[i].entry])

\* C12: on the local backend the read-modify-write of a save is not
\* interrupted: a save that is answered ok, its read having succeeded, leaves
\* in the file the new record on top of all the records that were there, so
\* of two valid submissions of the same kind that are both answered ok both
\* records are in the file afterwards.
C12_LocalSaveUninterrupted ==
  /\ [](faults = 0 => Records(file["guestbook"]) = NewestFirst(LocalSaved))
  /\ [][\A k \in Kinds :
          (/\ storage = "local"
           /\ resp'.kind = k
           /\ resp'.status = 200
           /\ ~resp'.ioError
           /\ (\E body \in RsvpBodies : PostRsvp(body))
                \/ (\E body \in GuestbookBodies : PostGuestbook(body))) =>
            /\ Len(Records(file'[k])) = Len(Records(file[k])) + 1
            /\ Tail(Records(file'[k])) = Records(file[k])]_vars

\* two guestbook submissions were answered ok on the local backend and both
\* records are in the file
C12_Witness ==
  /\ Len(LocalSaved) = 2
  /\ Len(saved) = 2
  /\ resp.kind = "guestbook"
  /\ resp.status = 200
  /\ ~resp.ioError
  /\ Records(file["guestbook"]) = NewestFirst(LocalSaved)

\* C12 as stated: of two valid submissions of the same kind that are both
\* answered ok on the local backend, without any I/O error, only one record
\* is in the file afterwards.
C12_OneOfTwoDropped ==
  (faults = 0 /\ Len(LocalSaved) = 2) => Len(Records(file["guestbook"])) = 1

\* C13: once the fallback to the local-file backend has happened no row is
\* appended to a remote sheet, also not by a request that was in flight when
\* it happened.
C13_NoRemoteAppendAfterFallback ==
  [][hist.switches > 0 =>
       \A p \in procs : AppendValues(p) => sheet' = sheet]_vars

\* the add-sheet requests for a title that are issued and not yet answered
AddsInFlight(t) == {p \in procs : p.title = t /\ p.pc = "add"}

\* C15, first half: for each sheet title the add-sheet request is issued at
\* most once, however the startup initialisation and the request handlers
\* that call ensureSheetExists interleave: no two are ever in flight.
C15_AddSheetIssuedOnce ==
  \A t \in Titles : Cardinality(AddsInFlight(t)) <= 1

\* C15, second half: no request appends a data row to a sheet that does not
\* exist or has no header row.
C15_RowsAppendedBelowHeader ==
  [][\A p \in procs :
       (AppendValues(p) /\ sheet' # sheet) =>
         (sheet[p.title].exists /\ sheet[p.title].cells # <<>>)]_vars

(***************************************************************************)
(* The first variant started with the three credentials set, with enough   *)
(* requests for a submission and a read that follows it.                   *)
(***************************************************************************)
InitStartup == InitState(1) /\ useGoogleSheets /\ budget = MaxStartupReqs

SpecStartup == InitStartup /\ [][Next]_vars

\* the guestbook read of the step is answered ok, its reads having succeeded
GuestbookReadAnswered ==
  /\ \/ GetGuestbook /\ storage = "local"
     \/ \E p \in procs : ReadValues(p)
  /\ resp'.kind = "get"
  /\ resp'.status = 200
  /\ ~resp'.ioError

\* C14: every guestbook submission that was answered ok, also one accepted
\* while the storage initialisation is in progress, is among the items of
\* every later guestbook read that is answered ok (fewer than 10 submissions
\* are accepted in a run).
C14_ReadYourWrites ==
  [][GuestbookReadAnswered =>
       \A i \in 1..Len(saved) :
         \E j \in 1..Len(resp'.items) :
           /\ resp'.items[j].timestamp = saved[i].entry.timestamp
           /\ resp'.items[j].name = saved[i].entry.name]_vars

\* the records of a kind's store on both backends: the records of its file
\* and the rows of its sheet below the header row
StoreRecords(f, sh, k) ==
  LET cells == sh[IF k = "rsvp" THEN RSVP_SHEET ELSE GUESTBOOK_SHEET].cells
  IN  <<Records(f[k]), IF cells = <<>> THEN <<>> ELSE Tail(cells)>>

StoreUnchanged(k) == StoreRecords(file', sheet', k) = StoreRecords(file, sheet, k)

\* a step of the request p: an answer of the remote API to a call it awaits
StepOf(p) ==
  \/ GetInfo(p)
  \/ AddSheet(p)
  \/ GetHeader(p)
  \/ PutHeader(p)
  \/ AppendValues(p)
  \/ ReadValues(p)

\* C16: an RSVP submission never changes the guestbook store, a guestbook
\* submission never changes the RSVP store and a guestbook read changes the
\* records of neither store, on both backends and whatever the request is
\* answered.
C16_Frame ==
  [][/\ (\E body \in RsvpBodies : PostRsvp(body)) => StoreUnchanged("guestbook")
     /\ (\E body \in GuestbookBodies : PostGuestbook(body)) => StoreUnchanged("rsvp")
     /\ GetGuestbook => (StoreUnchanged("rsvp") /\ StoreUnchanged("guestbook"))
     /\ \A p \in procs :
          StepOf(p) =>
            /\ p.kind = "rsvp" => StoreUnchanged("guestbook")
            /\ p.kind = "guestbook" => StoreUnchanged("rsvp")
            /\ p.kind = "get" => (StoreUnchanged("rsvp") /\ StoreUnchanged("guestbook"))]_vars

\* an RSVP was saved on the local backend while the guestbook file holds a
\* record
C16_Witness ==
  /\ resp.kind = "rsvp"
  /\ resp.status = 200
  /\ resp.backend = "local"
  /\ Records(file["rsvp"]) # <<>>
  /\ Records(file["guestbook"]) # <<>>

====
